---- MODULE Spec2Model ----
(***************************************************************************)
(* Link-Checker CLI (src/main.py): main() extracts the unique addresses of *)
(* a document, probes each one in a ThreadPoolExecutor of args.workers     *)
(* threads, prints one line per completed future and tallies the results   *)
(* into summary, then prints the summary block.                            *)
(*                                                                         *)
(* Addresses are opaque tokens; they are numbered in their sort order, so  *)
(* that sorted() is the numeric order.  What the network answers for an    *)
(* address is the environment of the run: net.                             *)
(***************************************************************************)
EXTENDS Integers, Sequences, FiniteSets, TLC

VARIABLES
    file,           \* the document at args.filepath
    net,            \* per address: how requests.head ends for it
    workers,        \* args.workers
    pc,             \* position of the main thread in main()
    urls,           \* urls (line 109)
    summary,        \* summary (line 117)
    future_to_url,  \* the futures submitted so far, in submission order
    work_queue,     \* the executor's queue of work items not yet taken
    future,         \* per address: the state and result of its future
    probes,         \* per address: how many times requests.head was called
    stdout,         \* the lines printed so far
    exit_status     \* the process's exit status, -1 while it runs

vars == <<file, net, workers, pc, urls, summary, future_to_url, work_queue,
          future, probes, stdout, exit_status>>

\* Largest --workers value of the runs explored.
MaxWorkers == 2

\* str(e)[:50] (line 76).
ReasonCap == 50

-----------------------------------------------------------------------------
(* Helpers over sequences and sets *)

Range(s) == {s[i] : i \in DOMAIN s}

Min(S) == CHOOSE x \in S : \A y \in S : x <= y

Take(s, n) == SubSeq(s, 1, IF Len(s) < n THEN Len(s) ELSE n)

Chars(n) == [i \in 1..n |-> "x"]

RECURSIVE sorted(_)
\* sorted(list(S)) for a set S of addresses (line 50).
sorted(S) == IF S = {} THEN <<>> ELSE <<Min(S)>> \o sorted(S \ {Min(S)})

RECURSIVE Reverse(_)
Reverse(s) == IF s = <<>> THEN <<>> ELSE Reverse(Tail(s)) \o <<Head(s)>>

-----------------------------------------------------------------------------
(* The environment: how requests.head(url, ...) ends for each address      *)
(* (line 66).  "response" is a final response after redirects; "Timeout"   *)
(* is requests.Timeout; "RequestException" any other requests exception;   *)
(* "Exception" an exception that is not a requests.RequestException.       *)

Mocks == <<
    [ends |-> "response", status_code |-> 200, reason |-> <<"OK">>, msg |-> <<>>],
    [ends |-> "response", status_code |-> 404, reason |-> <<"Not Found">>, msg |-> <<>>],
    [ends |-> "Timeout", status_code |-> 0, reason |-> <<>>, msg |-> Chars(3)],
    [ends |-> "RequestException", status_code |-> 0, reason |-> <<>>, msg |-> Chars(ReasonCap + 2)],
    [ends |-> "response", status_code |-> 300, reason |-> <<"Multiple Choices">>, msg |-> <<>>],
    [ends |-> "Exception", status_code |-> 0, reason |-> <<>>, msg |-> Chars(2)]
>>

\* Every address a document can mention.
Addresses == DOMAIN Mocks

\* A readable document that mentions each address of S twice, first in
\* descending then in ascending order.
Document(S) == [status |-> "ok", matches |-> Reverse(sorted(S)) \o sorted(S)]

\* The two ways reading the document fails (lines 51 and 54).
Unreadable == {[status |-> "FileNotFoundError", matches |-> <<>>],
               [status |-> "Exception", matches |-> <<>>]}

Documents == {Document(S) : S \in SUBSET Addresses} \cup Unreadable

\* The final status codes a response can carry, around the limits the code
\* tests.
StatusCodes == {100, 199, 200, 204, 299, 300, 304, 399, 400, 404, 408, 499, 500, 503,
                599, 600, 999}

\* The ways one requests.head call can end.
Answers ==
    {[ends |-> "response", status_code |-> c, reason |-> r, msg |-> <<>>] :
        c \in StatusCodes, r \in {<<"OK">>, <<>>}}
    \cup {[ends |-> e, status_code |-> 0, reason |-> <<>>, msg |-> Chars(n)] :
        e \in {"Timeout", "RequestException", "Exception"},
        n \in {0, ReasonCap - 1, ReasonCap, ReasonCap + 1}}

-----------------------------------------------------------------------------
(* Pure functions of src/main.py *)

\* extract_urls_from_file without the set() of line 50: sorted(urls).
extract_urls_from_file_noset(doc) == SortSeq(doc.matches, LAMBDA a, b : a < b)

\* extract_urls_from_file (lines 38-56) on a readable document:
\* sorted(list(set(url_pattern.findall(content)))).
extract_urls_from_file(doc) == sorted(Range(doc.matches))

\* check_url_status with the success test written 200 < status_code.
check_url_status_above200(url, answer) ==
    IF answer.ends = "response" THEN
        [raised |-> FALSE,
         value |-> <<url, answer.status_code,
                     IF 200 < answer.status_code /\ answer.status_code < 300
                     THEN answer.reason ELSE <<"Client/Server Error">> >>,
         exc |-> <<>>]
    ELSE IF answer.ends = "Timeout" THEN
        [raised |-> FALSE, value |-> <<url, 408, <<"Timeout">> >>, exc |-> <<>>]
    ELSE IF answer.ends = "RequestException" THEN
        [raised |-> FALSE,
         value |-> <<url, 0,
                     <<"Connection Error: ">> \o Take(answer.msg, ReasonCap) \o <<"...">> >>,
         exc |-> <<>>]
    ELSE
        [raised |-> TRUE, value |-> <<>>, exc |-> answer.msg]

\* check_url_status (lines 58-78): what the call does with the way
\* requests.head ended: a returned tuple (url, status_code, status_text),
\* or an exception that no except clause catches.
check_url_status(url, answer) ==
    IF answer.ends = "response" THEN
        [raised |-> FALSE,
         value |-> <<url, answer.status_code,
                     IF 200 <= answer.status_code /\ answer.status_code < 300
                     THEN answer.reason ELSE <<"Client/Server Error">> >>,
         exc |-> <<>>]
    ELSE IF answer.ends = "Timeout" THEN
        [raised |-> FALSE, value |-> <<url, 408, <<"Timeout">> >>, exc |-> <<>>]
    ELSE IF answer.ends = "RequestException" THEN
        [raised |-> FALSE,
         value |-> <<url, 0,
                     <<"Connection Error: ">> \o Take(answer.msg, ReasonCap) \o <<"...">> >>,
         exc |-> <<>>]
    ELSE
        [raised |-> TRUE, value |-> <<>>, exc |-> answer.msg]

\* print_result (lines 80-89): the line printed for a returned tuple.
print_result(url, status_code, status_text) ==
    [tag |-> "result",
     colour |-> IF 200 <= status_code /\ status_code < 300 THEN "GREEN"
                ELSE IF (400 <= status_code /\ status_code < 500) \/ status_code = 408
                     THEN "YELLOW"
                     ELSE "RED",
     status_code |-> status_code, status_text |-> status_text, url |-> url]

\* The bucket updates with the second test written status_code >= 400.
Tally_from400(s, status_code) ==
    IF 200 <= status_code /\ status_code < 300
    THEN [s EXCEPT !.good = @ + 1]
    ELSE IF status_code >= 400
         THEN [s EXCEPT !.bad = @ + 1]
         ELSE [s EXCEPT !.error = @ + 1]

\* The bucket updates without the final else branch.
Tally_noelse(s, status_code) ==
    IF 200 <= status_code /\ status_code < 300
    THEN [s EXCEPT !.good = @ + 1]
    ELSE IF status_code > 0
         THEN [s EXCEPT !.bad = @ + 1]
         ELSE s

\* The bucket updates of lines 135-140.
Tally(s, status_code) ==
    IF 200 <= status_code /\ status_code < 300
    THEN [s EXCEPT !.good = @ + 1]
    ELSE IF status_code > 0
         THEN [s EXCEPT !.bad = @ + 1]
         ELSE [s EXCEPT !.error = @ + 1]

\* The except branch of the collector loop (lines 142-145).
FaultLine(url, e) == [tag |-> "fault", colour |-> "RED", url |-> url, exc |-> e]

\* The except branch without line 145.
TallyFault_skip(s) == s

\* Line 145.
TallyFault(s) == [s EXCEPT !.error = @ + 1]

Line(tag) == [tag |-> tag]

-----------------------------------------------------------------------------
(* The state machine *)

NoFuture == [state |-> "none", raised |-> FALSE, value |-> <<>>, exc |-> <<>>]

\* main() is entered (line 107 has printed the header) with the document
\* one of Files, the network one of Nets and --workers one of Ws.
Start(Files, Nets, Ws) ==
    /\ file \in Files
    /\ net \in Nets
    /\ workers \in Ws
    /\ pc = "extract"
    /\ urls = <<>>
    /\ summary = [good |-> 0, bad |-> 0, error |-> 0]
    /\ future_to_url = <<>>
    /\ work_queue = <<>>
    /\ future = [u \in Addresses |-> NoFuture]
    /\ probes = [u \in Addresses |-> 0]
    /\ stdout = <<Line("header")>>
    /\ exit_status = -1

Init == Start(Documents, {Mocks}, (-1)..MaxWorkers)

\* The except clauses of lines 51-56 without their sys.exit(1): the function
\* returns None and main() goes on to line 111.
ExtractFails_noexit ==
    /\ pc = "extract"
    /\ file.status # "ok"
    /\ stdout' = Append(stdout, Line("read_error"))
    /\ pc' = "check_urls"
    /\ UNCHANGED <<file, net, workers, urls, summary, future_to_url, work_queue, future,
                   probes, exit_status>>

\* Line 109 when the document cannot be read: lines 51-56.
ExtractFails ==
    /\ pc = "extract"
    /\ file.status # "ok"
    /\ stdout' = Append(stdout, Line("read_error"))
    /\ exit_status' = 1
    /\ pc' = "exited"
    /\ UNCHANGED <<file, net, workers, urls, summary, future_to_url, work_queue, future, probes>>

\* Line 109 when the document is read.
Extract ==
    /\ pc = "extract"
    /\ file.status = "ok"
    /\ urls' = extract_urls_from_file(file)
    /\ pc' = "check_urls"
    /\ UNCHANGED <<file, net, workers, summary, future_to_url, work_queue, future, probes,
                   stdout, exit_status>>

\* Lines 111-113.
NoUrls ==
    /\ pc = "check_urls"
    /\ urls = <<>>
    /\ stdout' = Append(stdout, Line("no_urls"))
    /\ exit_status' = 0
    /\ pc' = "exited"
    /\ UNCHANGED <<file, net, workers, urls, summary, future_to_url, work_queue, future, probes>>

\* Lines 115-121 without the test of line 111.
Begin_unguarded ==
    /\ pc = "check_urls"
    /\ stdout' = Append(stdout, [tag |-> "found", count |-> Len(urls)])
    /\ summary' = [good |-> 0, bad |-> 0, error |-> 0]
    /\ pc' = "pool"
    /\ UNCHANGED <<file, net, workers, urls, future_to_url, work_queue, future, probes, exit_status>>

\* Lines 111-121.
Begin ==
    /\ pc = "check_urls"
    /\ urls # <<>>
    /\ stdout' = Append(stdout, [tag |-> "found", count |-> Len(urls)])
    /\ summary' = [good |-> 0, bad |-> 0, error |-> 0]
    /\ pc' = "pool"
    /\ UNCHANGED <<file, net, workers, urls, future_to_url, work_queue, future, probes, exit_status>>

\* Line 124: ThreadPoolExecutor(max_workers=args.workers) raises ValueError
\* for max_workers <= 0; nothing in main() catches it.
CreatePool ==
    /\ pc = "pool"
    /\ IF workers <= 0
       THEN /\ pc' = "crashed"
            /\ exit_status' = 1
       ELSE /\ pc' = "submit"
            /\ UNCHANGED exit_status
    /\ UNCHANGED <<file, net, workers, urls, summary, future_to_url, work_queue, future, probes, stdout>>

\* Line 126, one iteration of the comprehension: executor.submit.
Submit ==
    /\ pc = "submit"
    /\ Len(future_to_url) < Len(urls)
    /\ LET url == urls[Len(future_to_url) + 1] IN
        /\ future_to_url' = Append(future_to_url, url)
        /\ work_queue' = Append(work_queue, url)
        /\ future' = [future EXCEPT ![url].state = "pending"]
    /\ UNCHANGED <<file, net, workers, pc, urls, summary, probes, stdout, exit_status>>

\* Line 126 done, line 129: as_completed(future_to_url) is entered.
Submitted ==
    /\ pc = "submit"
    /\ Len(future_to_url) = Len(urls)
    /\ pc' = "collect"
    /\ UNCHANGED <<file, net, workers, urls, summary, future_to_url, work_queue, future, probes,
                   stdout, exit_status>>

\* The probes in their network call.
Running == {u \in Addresses : future[u].state = "running"}

\* A pool that starts a thread while max_workers are already busy.
WorkerStart_onemore ==
    /\ work_queue # <<>>
    /\ Cardinality(Running) <= workers
    /\ LET url == Head(work_queue) IN
        /\ future' = [future EXCEPT ![url].state = "running"]
        /\ probes' = [probes EXCEPT ![url] = @ + 1]
    /\ work_queue' = Tail(work_queue)
    /\ UNCHANGED <<file, net, workers, pc, urls, summary, future_to_url, stdout, exit_status>>

\* A pool that keeps one of its max_workers threads idle.
WorkerStart_oneless ==
    /\ work_queue # <<>>
    /\ Cardinality(Running) + 1 < workers
    /\ LET url == Head(work_queue) IN
        /\ future' = [future EXCEPT ![url].state = "running"]
        /\ probes' = [probes EXCEPT ![url] = @ + 1]
    /\ work_queue' = Tail(work_queue)
    /\ UNCHANGED <<file, net, workers, pc, urls, summary, future_to_url, stdout, exit_status>>

\* A pool thread takes the next work item and enters check_url_status:
\* requests.head is called (line 66).  The pool has at most max_workers
\* threads (line 124).
WorkerStart ==
    /\ work_queue # <<>>
    /\ Cardinality(Running) < workers
    /\ LET url == Head(work_queue) IN
        /\ future' = [future EXCEPT ![url].state = "running"]
        /\ probes' = [probes EXCEPT ![url] = @ + 1]
    /\ work_queue' = Tail(work_queue)
    /\ UNCHANGED <<file, net, workers, pc, urls, summary, future_to_url, stdout, exit_status>>

\* A probe that updates the bucket itself, in the pool's thread, when it
\* returns.
WorkerFinish_tallies(url) ==
    /\ future[url].state = "running"
    /\ LET r == check_url_status(url, net[url]) IN
        /\ future' = [future EXCEPT ![url] =
                          [state |-> "finished", raised |-> r.raised,
                           value |-> r.value, exc |-> r.exc]]
        /\ summary' = IF r.raised THEN summary ELSE Tally(summary, r.value[2])
    /\ UNCHANGED <<file, net, workers, pc, urls, future_to_url, work_queue, probes,
                   stdout, exit_status>>

\* A probe that is queued once more after its first timeout.
WorkerFinish_retry(url) ==
    /\ future[url].state = "running"
    /\ IF net[url].ends = "Timeout" /\ probes[url] < 2
       THEN /\ future' = [future EXCEPT ![url].state = "pending"]
            /\ work_queue' = Append(work_queue, url)
       ELSE /\ LET r == check_url_status(url, net[url]) IN
                future' = [future EXCEPT ![url] =
                              [state |-> "finished", raised |-> r.raised,
                               value |-> r.value, exc |-> r.exc]]
            /\ UNCHANGED work_queue
    /\ UNCHANGED <<file, net, workers, pc, urls, summary, future_to_url, probes,
                   stdout, exit_status>>

\* requests.head ends and check_url_status returns or raises (lines 67-78);
\* the future holds the result or the exception.
WorkerFinish(url) ==
    /\ future[url].state = "running"
    /\ LET r == check_url_status(url, net[url]) IN
        future' = [future EXCEPT ![url] =
                      [state |-> "finished", raised |-> r.raised,
                       value |-> r.value, exc |-> r.exc]]
    /\ UNCHANGED <<file, net, workers, pc, urls, summary, future_to_url, work_queue, probes,
                   stdout, exit_status>>

\* The loop body without the try/except of lines 130 and 142-145: the
\* exception of future.result() leaves main().
Collect_notry(f) ==
    /\ pc = "collect"
    /\ f \in Range(future_to_url)
    /\ future[f].state = "finished"
    /\ IF ~future[f].raised
       THEN LET url == future[f].value[1]
                status_code == future[f].value[2]
                status_text == future[f].value[3]
            IN  /\ stdout' = Append(stdout, print_result(url, status_code, status_text))
                /\ summary' = Tally(summary, status_code)
                /\ UNCHANGED <<pc, exit_status>>
       ELSE /\ pc' = "crashed"
            /\ exit_status' = 1
            /\ UNCHANGED <<stdout, summary>>
    /\ future' = [future EXCEPT ![f].state = "yielded"]
    /\ UNCHANGED <<file, net, workers, urls, future_to_url, work_queue, probes>>

\* Lines 129-145, one iteration: as_completed yields a finished future that
\* it has not yielded yet, and the loop body runs.
Collect(f) ==
    /\ pc = "collect"
    /\ f \in Range(future_to_url)
    /\ future[f].state = "finished"
    /\ IF ~future[f].raised
       THEN LET url == future[f].value[1]
                status_code == future[f].value[2]
                status_text == future[f].value[3]
            IN  /\ stdout' = Append(stdout, print_result(url, status_code, status_text))
                /\ summary' = Tally(summary, status_code)
       ELSE LET url == f
            IN  /\ stdout' = Append(stdout, FaultLine(url, future[f].exc))
                /\ summary' = TallyFault(summary)
    /\ future' = [future EXCEPT ![f].state = "yielded"]
    /\ UNCHANGED <<file, net, workers, pc, urls, future_to_url, work_queue, probes, exit_status>>

\* The summary printed once the futures are done, consumed or not.
PrintSummary_early ==
    /\ pc = "collect"
    /\ \A f \in Range(future_to_url) : future[f].state \in {"finished", "yielded"}
    /\ stdout' = Append(stdout, [tag |-> "summary", total |-> Len(urls),
                                 good |-> summary.good, bad |-> summary.bad,
                                 error |-> summary.error])
    /\ exit_status' = 0
    /\ pc' = "done"
    /\ UNCHANGED <<file, net, workers, urls, summary, future_to_url, work_queue, future, probes>>

\* as_completed is exhausted and the with block exits (shutdown waits for
\* the threads); lines 147-153 print the summary block and main() returns.
PrintSummary ==
    /\ pc = "collect"
    /\ \A f \in Range(future_to_url) : future[f].state = "yielded"
    /\ stdout' = Append(stdout, [tag |-> "summary", total |-> Len(urls),
                                 good |-> summary.good, bad |-> summary.bad,
                                 error |-> summary.error])
    /\ exit_status' = 0
    /\ pc' = "done"
    /\ UNCHANGED <<file, net, workers, urls, summary, future_to_url, work_queue, future, probes>>

MainThread ==
    \/ ExtractFails
    \/ Extract
    \/ NoUrls
    \/ Begin
    \/ CreatePool
    \/ Submit
    \/ Submitted
    \/ \E f \in Addresses : Collect(f)
    \/ PrintSummary

Next ==
    \/ MainThread
    \/ WorkerStart
    \/ \E url \in Addresses : WorkerFinish(url)

Spec == Init /\ [][Next]_vars

\* Runs over documents of up to three addresses in which the first address
\* is answered in every way of Answers.
ProbeInit ==
    Start({Document(S) : S \in {{}, {1}, {1, 2, 3}}} \cup Unreadable,
          {[Mocks EXCEPT ![1] = a] : a \in Answers},
          0..MaxWorkers)

ProbeSpec == ProbeInit /\ [][Next]_vars

\* Longest list of matches of the documents of ExtractSpec.
MaxMatches == 3

\* Runs over every document whose pattern matches are a list of up to
\* MaxMatches addresses, in any order and with repetitions.
ExtractInit ==
    Start({[status |-> "ok", matches |-> m] :
              m \in UNION {[1..k -> Addresses] : k \in 0..MaxMatches}} \cup Unreadable,
          {Mocks},
          {1})

ExtractSpec == ExtractInit /\ [][Next]_vars

\* The main thread and the pool's threads are scheduled fairly, and every
\* requests.head call ends (it has a timeout).
FairSpec ==
    /\ Spec
    /\ WF_vars(MainThread)
    /\ WF_vars(WorkerStart)
    /\ \A url \in Addresses : WF_vars(WorkerFinish(url))

-----------------------------------------------------------------------------
(* Observations of a run *)

\* A line that reports an address: a printed Outcome or a reported fault.
IsOutcomeLine(l) == l.tag \in {"result", "fault"}

OutcomeLines == {i \in DOMAIN stdout : IsOutcomeLine(stdout[i])}

\* The number of lines printed for address u.
Delivered(u) == Cardinality({i \in OutcomeLines : stdout[i].url = u})

TallyTotal == summary.good + summary.bad + summary.error

Done(u) == future[u].state \in {"finished", "yielded"}

\* The classification of the Outcome of a probe that ended as answer says,
\* and the Tally bucket of each classification.
Classification(answer) ==
    IF answer.ends = "response"
    THEN IF 200 <= answer.status_code /\ answer.status_code < 300
         THEN "Success" ELSE "ClientOrServerError"
    ELSE IF answer.ends = "Timeout" THEN "Timeout" ELSE "ConnectionError"

Bucket(c) ==
    IF c = "Success" THEN "good"
    ELSE IF c \in {"ClientOrServerError", "Timeout"} THEN "bad" ELSE "error"

\* The collector loop consumes the future of address f in this step.
Consumes(f) == future[f].state = "finished" /\ future'[f].state = "yielded"

-----------------------------------------------------------------------------
(* Claims *)

\* C1: when the run of main() completes, every input address has exactly one
\* line delivered, the number of lines delivered is the number of addresses,
\* and good + bad + error is that number.
C1_OneOutcomePerAddress ==
    pc = "done" =>
        /\ \A u \in Addresses :
              Delivered(u) = (IF u \in Range(urls) THEN 1 ELSE 0)
        /\ Cardinality(OutcomeLines) = Len(urls)
        /\ TallyTotal = Len(urls)

\* A completed run over all addresses whose first delivered line is not the
\* first address's.
C1_Witness ==
    /\ pc = "done"
    /\ Len(urls) = Cardinality(Addresses)
    /\ \E i \in OutcomeLines :
          stdout[i].url # urls[1] /\ \A j \in OutcomeLines : i <= j

\* C2: in every state the Tally total equals the number of Outcomes consumed
\* so far, and it is the number of addresses when the run has completed.
C2_TallyFollowsConsumption ==
    /\ TallyTotal = Cardinality(OutcomeLines)
    /\ TallyTotal = Cardinality({u \in Addresses : future[u].state = "yielded"})
    /\ pc = "done" => TallyTotal = Len(urls)

\* Mid-run: some Outcomes consumed, one completed but not consumed, one probe
\* in its network call.
C2_Witness ==
    /\ pc = "collect"
    /\ TallyTotal = 2
    /\ \E u \in Addresses : future[u].state = "finished"
    /\ \E u \in Addresses : future[u].state = "running"

\* C3: never more than --workers probes are in their network call; with one
\* worker and 5 addresses at most one is, and all 5 Outcomes are delivered
\* and tallied.
C3_ConcurrencyBound ==
    /\ workers >= 1 => Cardinality(Running) <= workers
    /\ workers < 1 => Running = {}
    /\ (workers = 1 /\ Len(urls) = 5 /\ pc = "done") =>
          /\ Cardinality(OutcomeLines) = 5
          /\ TallyTotal = 5
          /\ \A u \in Range(urls) : Delivered(u) = 1 /\ probes[u] = 1

\* One worker, 5 addresses: one probe in flight while others wait in the queue
\* and an earlier one is already consumed.
C3_Witness ==
    /\ workers = 1
    /\ Len(urls) = 5
    /\ Cardinality(Running) = 1
    /\ Len(work_queue) >= 2
    /\ TallyTotal >= 1

\* The scenario of C4: three addresses answering 200, 404 and never.
C4_Scenario ==
    /\ Len(urls) = 3
    /\ net[urls[1]].ends = "response" /\ net[urls[1]].status_code = 200
    /\ net[urls[2]].ends = "response" /\ net[urls[2]].status_code = 404
    /\ net[urls[3]].ends = "Timeout"

\* C4: consuming an Outcome increments exactly the one bucket of its
\* classification (Success -> good, ClientOrServerError or Timeout -> bad,
\* ConnectionError -> error); addresses answering 200, 404 and never end
\* with good = 1, bad = 2, error = 0.
C4_BucketByClassification ==
    /\ [][\A f \in Addresses :
            (Consumes(f) /\ ~future[f].raised) =>
                summary' = [summary EXCEPT ![Bucket(Classification(net[f]))] = @ + 1]]_vars
    /\ [](pc = "done" /\ C4_Scenario =>
            summary = [good |-> 1, bad |-> 2, error |-> 0])

\* The scenario has completed, the timeout consumed first.
C4_Witness ==
    /\ pc = "done"
    /\ C4_Scenario
    /\ \E i \in OutcomeLines :
          stdout[i].url = urls[3] /\ \A j \in OutcomeLines : i <= j

\* C5: check_url_status returns the address it was given with: the response
\* code and the server's text for a code in [200, 300); the response code and
\* "Client/Server Error" for any other response; 408 and "Timeout" for a
\* timeout; 0 and a connection-error reason for a transport failure.
C5_ClassificationPolicy ==
    \A u \in Addresses :
        (Done(u) /\ net[u].ends # "Exception") =>
            /\ ~future[u].raised
            /\ Len(future[u].value) = 3
            /\ future[u].value[1] = u
            /\ net[u].ends = "response" =>
                  /\ future[u].value[2] = net[u].status_code
                  /\ future[u].value[3] =
                        (IF net[u].status_code \in 200..299
                         THEN net[u].reason ELSE <<"Client/Server Error">>)
            /\ net[u].ends = "Timeout" =>
                  /\ future[u].value[2] = 408
                  /\ future[u].value[3] = <<"Timeout">>
            /\ net[u].ends = "RequestException" =>
                  /\ future[u].value[2] = 0
                  /\ Head(future[u].value[3]) = "Connection Error: "
                  /\ Len(future[u].value[3]) <= ReasonCap + 2

\* A probe answered 200 has returned.
C5_Witness ==
    \E u \in Addresses :
        /\ Done(u)
        /\ net[u].ends = "response"
        /\ net[u].status_code = 200
        /\ future[u].value[3] = net[u].reason

\* C6: however the network call ends, check_url_status returns an Outcome
\* tuple and never raises to its caller.
C6_ProberIsTotal ==
    \A u \in Addresses : Done(u) => ~future[u].raised /\ Len(future[u].value) = 3

\* C7: consuming a future that raised prints exactly one error line for its
\* address, adds one to the error bucket only and leaves the loop running;
\* a run in which a task faulted still ends with one line per address.
C7_FaultContained ==
    /\ [][\A f \in Addresses :
            (Consumes(f) /\ future[f].raised) =>
                /\ stdout' = Append(stdout, stdout'[Len(stdout')])
                /\ stdout'[Len(stdout')].tag = "fault"
                /\ stdout'[Len(stdout')].url = f
                /\ summary' = [summary EXCEPT !.error = @ + 1]
                /\ pc' = "collect"
                /\ exit_status' = -1]_vars
    /\ []((\E f \in Range(urls) : future[f].raised) =>
            /\ pc # "crashed"
            /\ \A u \in Addresses : Delivered(u) <= 1
            /\ pc = "done" => \A u \in Range(urls) : Delivered(u) = 1)

\* A run completed in which a faulted task was consumed before another
\* address's Outcome.
C7_Witness ==
    /\ pc = "done"
    /\ \E i \in OutcomeLines :
          /\ stdout[i].tag = "fault"
          /\ \E j \in OutcomeLines : i < j /\ stdout[j].tag = "result"

\* C8: once the summary is printed every address has had its Outcome
\* delivered and tallied: none is queued, in flight or completed but not
\* consumed, and no Outcome line follows the summary.
C8_SummaryLast ==
    (pc = "done" \/ \E i \in DOMAIN stdout : stdout[i].tag = "summary") =>
        /\ pc = "done"
        /\ work_queue = <<>>
        /\ Running = {}
        /\ \A u \in Range(urls) : future[u].state = "yielded" /\ Delivered(u) = 1
        /\ stdout[Len(stdout)].tag = "summary"
        /\ \A i \in 1..(Len(stdout) - 1) : stdout[i].tag # "summary"
        /\ stdout[Len(stdout)].total = Len(urls)
        /\ stdout[Len(stdout)].good + stdout[Len(stdout)].bad
              + stdout[Len(stdout)].error = Len(urls)

\* The summary is printed after a run of several addresses.
C8_Witness ==
    /\ Len(urls) >= 3
    /\ workers = 2
    /\ stdout[Len(stdout)].tag = "summary"

\* C9: with one worker or more and fair scheduling, a run over a non-empty
\* address set reaches the summary; the queue of probes drains (every queued
\* probe is started) and no completed future stays unconsumed.
C9_RunsToCompletion ==
    /\ (pc = "pool" /\ workers >= 1) ~> (pc = "done")
    /\ (work_queue # <<>>) ~> (work_queue = <<>>)
    /\ (\E u \in Addresses : future[u].state = "finished")
          ~> (\A u \in Addresses : future[u].state # "finished")

\* A run with more addresses than workers has completed.
C9_Witness ==
    /\ pc = "done"
    /\ workers = 1
    /\ Len(urls) >= 2
    /\ exit_status = 0

EmptyDocument == file.status = "ok" /\ Range(file.matches) = {}

\* C10: with no address in the document no probe is started, no Outcome line
\* is printed, the Tally stays empty, and the process reports that no URL was
\* found and exits with status 0.
C10_NoAddresses ==
    EmptyDocument =>
        /\ \A u \in Addresses : probes[u] = 0 /\ future[u].state = "none"
        /\ future_to_url = <<>>
        /\ OutcomeLines = {}
        /\ summary = [good |-> 0, bad |-> 0, error |-> 0]
        /\ pc \in {"extract", "check_urls", "exited"}
        /\ pc = "exited" =>
              /\ exit_status = 0
              /\ stdout = <<Line("header"), Line("no_urls")>>

\* The run over an empty document has exited.
C10_Witness == EmptyDocument /\ pc = "exited" /\ exit_status = 0

\* The main thread has left main(): by sys.exit, by an uncaught exception or
\* by returning.
Terminated == pc \in {"exited", "crashed", "done"}

SummaryEmitted == stdout[Len(stdout)].tag = "summary"

\* C11 as stated: every run whose document was read, whatever the number of
\* addresses, ends with the summary block, whose three counts sum to its
\* total.
C11_AlwaysSummary ==
    (file.status = "ok" /\ Terminated) =>
        /\ SummaryEmitted
        /\ stdout[Len(stdout)].good + stdout[Len(stdout)].bad
              + stdout[Len(stdout)].error = stdout[Len(stdout)].total

\* C11: a run that found at least one address and has a positive --workers
\* value ends with the summary block; its total is the number of addresses
\* and its three counts sum to it.
C11_SummaryWhenAddresses ==
    (pc = "check_urls" /\ urls # <<>> /\ workers >= 1) ~>
        (/\ SummaryEmitted
         /\ stdout[Len(stdout)].total = Len(urls)
         /\ stdout[Len(stdout)].good + stdout[Len(stdout)].bad
               + stdout[Len(stdout)].error = stdout[Len(stdout)].total)

\* The summary of a run over four addresses or more, errors among its counts.
C11_Witness ==
    /\ SummaryEmitted
    /\ stdout[Len(stdout)].total >= 4
    /\ stdout[Len(stdout)].error >= 1
    /\ stdout[Len(stdout)].good >= 1

\* C12: when the document cannot be read the process prints an error message
\* and exits with a non-zero status; no probe is started, no Outcome line and
\* no summary is printed.
C12_UnreadableDocument ==
    file.status # "ok" =>
        /\ \A u \in Addresses : probes[u] = 0 /\ future[u].state = "none"
        /\ OutcomeLines = {}
        /\ \A i \in DOMAIN stdout : stdout[i].tag \in {"header", "read_error"}
        /\ pc \in {"extract", "exited"}
        /\ pc = "exited" =>
              /\ exit_status > 0
              /\ stdout[Len(stdout)].tag = "read_error"
        /\ pc = "extract" => exit_status = -1

\* The run over a missing file has exited.
C12_Witness ==
    /\ file.status = "FileNotFoundError"
    /\ pc = "exited"
    /\ exit_status = 1

\* C13: a run with a --workers value of zero or less is rejected whatever the
\* document: it starts no probe and does not end with the success status.
C13_WorkersValidated ==
    workers <= 0 =>
        /\ \A u \in Addresses : probes[u] = 0
        /\ exit_status # 0

\* C14: the list extract_urls_from_file returns holds no address twice, holds
\* exactly the addresses that occur in the document, and is in ascending
\* order whatever the order of occurrence: it is the same for the document
\* read backwards, and extracting from the list itself gives the list again.
C14_ExtractionStable ==
    (file.status = "ok" /\ pc # "extract") =>
        /\ \A i, j \in DOMAIN urls : i < j => urls[i] < urls[j]
        /\ Range(urls) = Range(file.matches)
        /\ extract_urls_from_file([file EXCEPT !.matches = Reverse(@)]) = urls
        /\ extract_urls_from_file([file EXCEPT !.matches = urls]) = urls

\* A document with a repeated address, not in sorted order, has been read.
C14_Witness ==
    /\ pc = "check_urls"
    /\ file.status = "ok"
    /\ Len(file.matches) = 3
    /\ file.matches[1] = file.matches[3]
    /\ file.matches[2] < file.matches[1]
    /\ Len(urls) = 2

\* The line the collector prints for address u, given what the network
\* answers for it.
ExpectedLine(u) ==
    LET r == check_url_status(u, net[u])
    IN  IF r.raised THEN FaultLine(u, r.exc)
        ELSE print_result(r.value[1], r.value[2], r.value[3])

\* C15: the final Tally and the set of delivered Outcomes are fixed by what
\* the network answers for each address: the same for every completion
\* order and every --workers value.
C15_OrderIndependent ==
    pc = "done" =>
        /\ \A b \in {"good", "bad", "error"} :
              summary[b] =
                  Cardinality({u \in Range(urls) : Bucket(Classification(net[u])) = b})
        /\ {stdout[i] : i \in OutcomeLines} = {ExpectedLine(u) : u \in Range(urls)}

\* A completed run with two workers whose Outcomes arrived out of input
\* order.
C15_Witness ==
    /\ pc = "done"
    /\ workers = 2
    /\ Len(urls) >= 3
    /\ \E i, j \in OutcomeLines : i < j /\ stdout[i].url > stdout[j].url

\* C16: a step of a pool thread (a probe starting or ending) leaves the Tally
\* and the output unchanged; the Tally and the Outcome lines change only in
\* a step of the collector loop, which consumes exactly one future, appends
\* exactly one line and adds exactly one to the Tally.
C16_SingleConsumptionPoint ==
    [][/\ (\E u \in Addresses :
              \/ probes'[u] # probes[u]
              \/ /\ future'[u].state # future[u].state
                 /\ future'[u].state \in {"running", "finished"})
          => UNCHANGED <<summary, stdout>>
       /\ (summary' # summary \/ Cardinality(OutcomeLines') # Cardinality(OutcomeLines))
          => /\ pc = "collect" /\ pc' = "collect"
             /\ Cardinality({f \in Addresses : Consumes(f)}) = 1
             /\ Len(stdout') = Len(stdout) + 1
             /\ SubSeq(stdout', 1, Len(stdout)) = stdout
             /\ IsOutcomeLine(stdout'[Len(stdout')])
             /\ TallyTotal' = TallyTotal + 1
             /\ UNCHANGED <<probes, work_queue>>]_vars

\* Two probes are in their network call while the collector has already
\* consumed an Outcome.
C16_Witness ==
    /\ pc = "collect"
    /\ Cardinality(Running) = 2
    /\ TallyTotal >= 1
    /\ Cardinality(OutcomeLines) >= 1

\* C17: requests.head is called at most once per address in a run: one
\* future is submitted per address, and an address whose probe has ended
\* (in a timeout, a connection error, an error response or a fault) is never
\* queued or probed again; a completed run has probed each address once.
C17_ProbedOnce ==
    /\ [](/\ \A u \in Addresses : probes[u] <= 1
          /\ \A i, j \in DOMAIN future_to_url :
                future_to_url[i] = future_to_url[j] => i = j
          /\ \A i, j \in DOMAIN work_queue :
                work_queue[i] = work_queue[j] => i = j
          /\ pc = "done" =>
                \A u \in Addresses : probes[u] = (IF u \in Range(urls) THEN 1 ELSE 0))
    /\ [][\A u \in Addresses :
            Done(u) =>
                /\ probes'[u] = probes[u]
                /\ future'[u].state \in {"finished", "yielded"}
                /\ \A i \in DOMAIN work_queue' : work_queue'[i] # u]_vars

\* A completed run whose probes ended in an error response, a timeout, a
\* connection error and a fault.
C17_Witness ==
    /\ pc = "done"
    /\ {2, 3, 4, 6} \subseteq Range(urls)
    /\ \A u \in Range(urls) : probes[u] = 1

\* C18: the colour of each printed status marker agrees with the bucket the
\* Outcome is counted in: as many green lines as good, yellow lines as bad
\* and red lines as error, in every state.
C18_ColourMatchesBucket ==
    /\ Cardinality({i \in OutcomeLines : stdout[i].colour = "GREEN"}) = summary.good
    /\ Cardinality({i \in OutcomeLines : stdout[i].colour = "YELLOW"}) = summary.bad
    /\ Cardinality({i \in OutcomeLines : stdout[i].colour = "RED"}) = summary.error

====
